---- MODULE Spec2Model ----
(***************************************************************************)
(* Model of the HPy trace context (trace_ctx.c): one-time initialization   *)
(* of the trace info, the on-enter / on-exit instrumentation protocol, the *)
(* duration accumulator and the invocation of the user trace functions.    *)
(*                                                                         *)
(* Two specifications:                                                     *)
(*   Spec     the trace context driven by call-site wrappers               *)
(*   SpecAcc  update_duration applied to bounded timestamps                *)
(***************************************************************************)
EXTENDS Integers, Sequences, FiniteSets

VARIABLES
    ndebug,        \* build: NDEBUG defined, assert() compiled out
    win32,         \* build: _WIN32 defined
    tctx_private,  \* tctx->_private: "NULL" or the pointer "info"
    info,          \* the HPyTraceInfo record tctx->_private points to
    fatal,         \* how the process was terminated, if it was
    stdout,        \* lines printed
    last,          \* the latest API call: its arguments and what it returned
    uctx_log,      \* the calls the latest API call made through uctx (and to
                   \* malloc), in order
    n_enter,       \* history: number of hpy_trace_on_enter calls per id
    n_exit,        \* history: number of accumulating hpy_trace_on_exit calls per id
    elapsed_sum,   \* history: normalized sum of (end - start) per id
    closed_handles,\* the trace function handles closed on uctx by hpy_trace_ctx_free
    life,          \* history: "new", "freed" after hpy_trace_ctx_free, "reinit"
                   \* after a successful hpy_trace_ctx_init that followed it
    ud,            \* SpecAcc: the latest update_duration call
    frames,        \* SpecNested, SpecThreads: per thread, the stack of wrapper
                   \* calls in progress with the position in on_enter / on_exit
    sync           \* SpecThreads: the callers let one thread at a time run
                   \* on_enter / on_exit

vars == <<ndebug, win32, tctx_private, info, fatal, stdout, last, uctx_log,
          n_enter, n_exit, elapsed_sum, closed_handles, life, ud, frames, sync>>

(***************************************************************************)
(* Bounds of the model.                                                    *)
(***************************************************************************)
\* number of operation ids (the size of call_counts / durations)
NumOps == 3
\* number of wrapper calls (on_enter) in a run, and of update_duration
\* calls in SpecAcc
MaxCalls == 2
\* largest accumulated tv_nsec at which the model still lets a call
\* accumulate (a call adds less than FREQ_NSEC to it)
NsecCap == 1100000000
\* number of wrapper calls (on_enter) in a run of SpecLife
MaxLifeCalls == 1
\* SpecNested: number of wrapper calls in progress at once on the thread
\* (a call made by the application and those made inside trace functions)
MaxDepth == 2

OperationIds == 0 .. (NumOps - 1)
Threads == {1, 2}
Uctxs == {"uctx1", "uctx2"}

(***************************************************************************)
(* Values.                                                                 *)
(***************************************************************************)
FREQ_NSEC == 1000000000

\* struct timespec / LARGE_INTEGER
Ts(s, n) == [tv_sec |-> s, tv_nsec |-> n]
Qp(q) == [QuadPart |-> q]
ZeroTime == IF win32 THEN Qp(0) ELSE Ts(0, 0)

\* handles
HPy_NULL == [kind |-> "null", val |-> <<>>]
HPy_IsNull(h) == h.kind = "null"
OnEnterCallable == [kind |-> "callable", val |-> <<"on_enter">>]
OnExitCallable == [kind |-> "callable", val |-> <<"on_exit">>]
CallResult == [kind |-> "object", val |-> <<"None">>]

\* the operation catalog
FuncNames == <<"alloc", "free", "call", "dup", "close", "new">>
hpy_trace_get_func_name(id) == FuncNames[id + 1]

(***************************************************************************)
(* The underlying context.  A call made through uctx is logged as          *)
(* [ctx, fn, hs, ss, res]: the function, its handle arguments, its string  *)
(* arguments and the handle it returned.                                   *)
(***************************************************************************)
UCall(uctx, fn, hs, ss, res) ==
    [ctx |-> uctx, fn |-> fn, hs |-> hs, ss |-> ss, res |-> res]

\* ok: whether the context can create the object
HPyUnicode_FromString(uctx, s, ok) ==
    UCall(uctx, "HPyUnicode_FromString", <<>>, <<s>>,
          IF ok THEN [kind |-> "str", val |-> <<s>>] ELSE HPy_NULL)
HPyTuple_FromArray(uctx, items, ok) ==
    UCall(uctx, "HPyTuple_FromArray", items, <<>>,
          IF ok THEN [kind |-> "tuple", val |-> [i \in DOMAIN items |-> items[i].val[1]]]
          ELSE HPy_NULL)
HPy_Close(uctx, h) == UCall(uctx, "HPy_Close", <<h>>, <<>>, HPy_NULL)
\* ok: whether the callable returns a result
HPy_CallTupleDict(uctx, callable, args, kw, ok) ==
    UCall(uctx, "HPy_CallTupleDict", <<callable, args, kw>>, <<>>,
          IF ok THEN CallResult ELSE HPy_NULL)
\* does not return: the process is terminated
HPy_FatalError(uctx, msg) == UCall(uctx, "HPy_FatalError", <<>>, <<msg>>, HPy_NULL)
HPyErr_NoMemory(uctx) == UCall(uctx, "HPyErr_NoMemory", <<>>, <<>>, HPy_NULL)
\* malloc(sizeof(HPyTraceInfo)), logged with the calls through uctx
malloc(ok) ==
    UCall("libc", "malloc", <<>>, <<"sizeof(HPyTraceInfo)">>,
          IF ok THEN [kind |-> "ptr", val |-> <<"info">>] ELSE HPy_NULL)

\* how the process was terminated
NoFatal == [via |-> "none", ctx |-> "NULL", msg |-> ""]
FatalBy(c) == [via |-> "HPy_FatalError", ctx |-> c.ctx, msg |-> c.ss[1]]
AssertFailed(expr) == [via |-> "assert", ctx |-> "NULL", msg |-> expr]
Alive == fatal.via = "none"

\* whether a log ends in HPy_FatalError, and the termination it stands for
EndsFatal(log) == Len(log) > 0 /\ log[Len(log)].fn = "HPy_FatalError"
FatalOf(log) == IF EndsFatal(log) THEN FatalBy(log[Len(log)]) ELSE NoFatal

\* the record `last`: op, the call's arguments, whether it returned and
\* its return value (rc for init, h for on_enter)
Call(op, uctx, id, r0, r1, returned, rc, h) ==
    [op |-> op, uctx |-> uctx, id |-> id, r0 |-> r0, r1 |-> r1,
     returned |-> returned, rc |-> rc, h |-> h]
NoCall == Call("none", "NULL", 0, 0, 0, TRUE, 0, "NULL")

(***************************************************************************)
(* The clock of the call-site wrappers.                                    *)
(***************************************************************************)
\* get_monotonic_clock: clock_gettime returns 0 or -1,
\* QueryPerformanceCounter nonzero or 0
ClockStatuses == IF win32 THEN {0, 1} ELSE {0, -1}
ReadOk(r) == IF win32 THEN r # 0 ELSE r = 0

Times ==
    IF win32 THEN {Qp(0), Qp(100), Qp(350)}
    ELSE {Ts(0, 0), Ts(0, 100), Ts(0, 350), Ts(1, 0)}

TimeLE(a, b) ==
    IF win32 THEN a.QuadPart <= b.QuadPart
    ELSE IF a.tv_sec = b.tv_sec THEN a.tv_nsec <= b.tv_nsec
         ELSE a.tv_sec < b.tv_sec

\* what the underlying context does with the calls of one on_enter/on_exit:
\* whether the name string, the tuple and the observer's result are produced
Envs ==
    {[name_ok |-> TRUE, tuple_ok |-> TRUE, res_ok |-> TRUE],
     [name_ok |-> FALSE, tuple_ok |-> TRUE, res_ok |-> TRUE],
     [name_ok |-> TRUE, tuple_ok |-> FALSE, res_ok |-> TRUE],
     [name_ok |-> TRUE, tuple_ok |-> TRUE, res_ok |-> FALSE]}

(***************************************************************************)
(* trace_ctx.c                                                             *)
(***************************************************************************)
get_info == info

\* autogen_trace_ctx_init.h: the fields of a fresh HPyTraceInfo
trace_ctx_init_info(uctx, freq) ==
    [uctx |-> uctx,
     counter_freq |-> freq,
     call_counts |-> [o \in OperationIds |-> 0],
     durations |-> [o \in OperationIds |-> ZeroTime],
     on_enter_func |-> HPy_NULL,
     on_exit_func |-> HPy_NULL]

\* the memory tctx->_private does not point to yet
Unallocated ==
    [uctx |-> "NULL",
     counter_freq |-> Ts(0, 0),
     call_counts |-> [o \in OperationIds |-> 0],
     durations |-> [o \in OperationIds |-> Ts(0, 0)],
     on_enter_func |-> HPy_NULL,
     on_exit_func |-> HPy_NULL]

\* clock_getres(CLOCK_MONOTONIC_RAW) / QueryPerformanceFrequency
ClockResolution == IF win32 THEN Qp(10000000) ELSE Ts(0, 1)

\* mutant: initializes again whatever tctx->_private holds
hpy_trace_ctx_init_again(uctx, malloc_ok) ==
    /\ Alive
    /\ last.op # "on_enter"
    /\ IF FALSE
       THEN \* already initialized
            IF ~ndebug /\ get_info.uctx # uctx
            THEN /\ fatal' = AssertFailed("get_info(tctx)->uctx == uctx")
                 /\ last' = Call("init", uctx, 0, 0, 0, FALSE, 0, "NULL")
                 /\ uctx_log' = <<>>
                 /\ UNCHANGED <<tctx_private, info>>
            ELSE /\ last' = Call("init", uctx, 0, 0, 0, TRUE, 0, "NULL")
                 /\ uctx_log' = <<>>
                 /\ UNCHANGED <<tctx_private, info, fatal>>
       ELSE IF HPy_IsNull(malloc(malloc_ok).res)
            THEN /\ uctx_log' = <<malloc(malloc_ok), HPyErr_NoMemory(uctx)>>
                 /\ last' = Call("init", uctx, 0, 0, 0, TRUE, -1, "NULL")
                 /\ UNCHANGED <<tctx_private, info, fatal>>
            ELSE /\ info' = trace_ctx_init_info(uctx, ClockResolution)
                 /\ tctx_private' = malloc(malloc_ok).res.val[1]
                 /\ last' = Call("init", uctx, 0, 0, 0, TRUE, 0, "NULL")
                 /\ uctx_log' = <<malloc(malloc_ok)>>
                 /\ UNCHANGED fatal
    /\ life' = IF life = "freed" /\ tctx_private # "NULL"
                     /\ (ndebug \/ get_info.uctx = uctx)
                 THEN "reinit" ELSE life
    /\ UNCHANGED <<ndebug, win32, stdout, n_enter, n_exit, elapsed_sum,
                   closed_handles, ud, frames, sync>>

\* mutant: returns 0 after reporting the failed allocation
hpy_trace_ctx_init_rc(uctx, malloc_ok) ==
    /\ Alive
    /\ last.op # "on_enter"
    /\ IF tctx_private # "NULL"
       THEN \* already initialized
            IF ~ndebug /\ get_info.uctx # uctx
            THEN /\ fatal' = AssertFailed("get_info(tctx)->uctx == uctx")
                 /\ last' = Call("init", uctx, 0, 0, 0, FALSE, 0, "NULL")
                 /\ uctx_log' = <<>>
                 /\ UNCHANGED <<tctx_private, info>>
            ELSE /\ last' = Call("init", uctx, 0, 0, 0, TRUE, 0, "NULL")
                 /\ uctx_log' = <<>>
                 /\ UNCHANGED <<tctx_private, info, fatal>>
       ELSE IF HPy_IsNull(malloc(malloc_ok).res)
            THEN /\ uctx_log' = <<malloc(malloc_ok), HPyErr_NoMemory(uctx)>>
                 /\ last' = Call("init", uctx, 0, 0, 0, TRUE, 0, "NULL")
                 /\ UNCHANGED <<tctx_private, info, fatal>>
            ELSE /\ info' = trace_ctx_init_info(uctx, ClockResolution)
                 /\ tctx_private' = malloc(malloc_ok).res.val[1]
                 /\ last' = Call("init", uctx, 0, 0, 0, TRUE, 0, "NULL")
                 /\ uctx_log' = <<malloc(malloc_ok)>>
                 /\ UNCHANGED fatal
    /\ life' = IF life = "freed" /\ tctx_private # "NULL"
                     /\ (ndebug \/ get_info.uctx = uctx)
                 THEN "reinit" ELSE life
    /\ UNCHANGED <<ndebug, win32, stdout, n_enter, n_exit, elapsed_sum,
                   closed_handles, ud, frames, sync>>

hpy_trace_ctx_init(uctx, malloc_ok) ==
    /\ Alive
    /\ last.op # "on_enter"
    /\ IF tctx_private # "NULL"
       THEN \* already initialized
            IF ~ndebug /\ get_info.uctx # uctx
            THEN /\ fatal' = AssertFailed("get_info(tctx)->uctx == uctx")
                 /\ last' = Call("init", uctx, 0, 0, 0, FALSE, 0, "NULL")
                 /\ uctx_log' = <<>>
                 /\ UNCHANGED <<tctx_private, info>>
            ELSE /\ last' = Call("init", uctx, 0, 0, 0, TRUE, 0, "NULL")
                 /\ uctx_log' = <<>>
                 /\ UNCHANGED <<tctx_private, info, fatal>>
       ELSE IF HPy_IsNull(malloc(malloc_ok).res)
            THEN /\ uctx_log' = <<malloc(malloc_ok), HPyErr_NoMemory(uctx)>>
                 /\ last' = Call("init", uctx, 0, 0, 0, TRUE, -1, "NULL")
                 /\ UNCHANGED <<tctx_private, info, fatal>>
            ELSE /\ info' = trace_ctx_init_info(uctx, ClockResolution)
                 /\ tctx_private' = malloc(malloc_ok).res.val[1]
                 /\ last' = Call("init", uctx, 0, 0, 0, TRUE, 0, "NULL")
                 /\ uctx_log' = <<malloc(malloc_ok)>>
                 /\ UNCHANGED fatal
    /\ life' = IF life = "freed" /\ tctx_private # "NULL"
                     /\ (ndebug \/ get_info.uctx = uctx)
                 THEN "reinit" ELSE life
    /\ UNCHANGED <<ndebug, win32, stdout, n_enter, n_exit, elapsed_sum,
                   closed_handles, ud, frames, sync>>

\* the setter of the trace module: installs / replaces the two hooks with
\* references of its own (open, whatever was closed before)
set_trace_functions(on_enter, on_exit) ==
    /\ Alive
    /\ tctx_private # "NULL"
    /\ last.op # "on_enter"
    /\ info' = [info EXCEPT !.on_enter_func = on_enter, !.on_exit_func = on_exit]
    /\ last' = Call("set", info.uctx, 0, 0, 0, TRUE, 0, "NULL")
    /\ uctx_log' = <<>>
    /\ closed_handles' = closed_handles \ {on_enter, on_exit}
    /\ UNCHANGED <<ndebug, win32, tctx_private, fatal, stdout, n_enter, n_exit,
                   elapsed_sum, life, ud, frames, sync>>

\* autogen_trace_ctx_init.h: releases the two trace function references
\* through the info's uctx and leaves the call_counts / durations storage
\* as it is.  Whether it also resets the two fields to HPy_NULL is not
\* stated anywhere: cleared is either.
trace_ctx_free_info(i, cleared) ==
    [log |-> <<HPy_Close(i.uctx, i.on_enter_func), HPy_Close(i.uctx, i.on_exit_func)>>,
     info |-> IF cleared
              THEN [i EXCEPT !.on_enter_func = HPy_NULL, !.on_exit_func = HPy_NULL]
              ELSE i]

\* the handles a log closes (closing HPy_NULL does nothing)
ClosedBy(log) == {log[i].hs[1] : i \in {j \in DOMAIN log : log[j].fn = "HPy_Close"}}
                     \ {HPy_NULL}

\* mutant: returns 0 without freeing the info
hpy_trace_ctx_free_skip(cleared) ==
    /\ Alive
    /\ tctx_private # "NULL"
    /\ last.op # "on_enter"
    /\ uctx_log' = <<>>
    /\ last' = Call("free", get_info.uctx, 0, 0, 0, TRUE, 0, "NULL")
    /\ life' = "freed"
    /\ UNCHANGED <<ndebug, win32, tctx_private, info, fatal, stdout, n_enter, n_exit,
                   elapsed_sum, closed_handles, ud, frames, sync>>

hpy_trace_ctx_free(cleared) ==
    LET f == trace_ctx_free_info(get_info, cleared)
    IN  /\ Alive
        /\ tctx_private # "NULL"
        /\ last.op # "on_enter"
        /\ info' = f.info
        /\ uctx_log' = f.log
        /\ closed_handles' = closed_handles \cup ClosedBy(f.log)
        /\ last' = Call("free", get_info.uctx, 0, 0, 0, TRUE, 0, "NULL")
        /\ life' = "freed"
        /\ UNCHANGED <<ndebug, win32, tctx_private, fatal, stdout, n_enter, n_exit,
                       elapsed_sum, ud, frames, sync>>

\* mutant: builds the tuple from no items
create_trace_func_args_empty(uctx, id, env) ==
    LET name == HPyUnicode_FromString(uctx, hpy_trace_get_func_name(id), env.name_ok)
        h_name == name.res
        tuple == HPyTuple_FromArray(uctx, <<>>, env.tuple_ok)
        h_args == tuple.res
        fail == HPy_FatalError(uctx, "could not create arguments for user trace function")
    IN  IF HPy_IsNull(h_name)
        THEN [h |-> HPy_NULL, log |-> <<name, fail>>]
        ELSE IF HPy_IsNull(h_args)
        THEN [h |-> HPy_NULL, log |-> <<name, tuple, fail>>]
        ELSE [h |-> h_args, log |-> <<name, tuple, HPy_Close(uctx, h_name)>>]

\* The result: the handle returned and the calls made through uctx; a log
\* that ends in HPy_FatalError means the function did not return.
create_trace_func_args(uctx, id, env) ==
    LET name == HPyUnicode_FromString(uctx, hpy_trace_get_func_name(id), env.name_ok)
        h_name == name.res
        tuple == HPyTuple_FromArray(uctx, <<h_name>>, env.tuple_ok)
        h_args == tuple.res
        fail == HPy_FatalError(uctx, "could not create arguments for user trace function")
    IN  IF HPy_IsNull(h_name)
        THEN [h |-> HPy_NULL, log |-> <<name, fail>>]
        ELSE IF HPy_IsNull(h_args)
        THEN [h |-> HPy_NULL, log |-> <<name, tuple, fail>>]
        ELSE [h |-> h_args, log |-> <<name, tuple, HPy_Close(uctx, h_name)>>]

\* mutant: a null result of the trace function is not checked
call_trace_func_unchecked(uctx, func, id, env, msg) ==
    LET a == create_trace_func_args(uctx, id, env)
        call == HPy_CallTupleDict(uctx, func, a.h, HPy_NULL, env.res_ok)
    IN  IF HPy_IsNull(func)
        THEN <<>>
        ELSE IF EndsFatal(a.log)
        THEN a.log
        ELSE a.log \o <<call, HPy_Close(uctx, a.h)>>

\* mutant: the trace function is called without the HPy_IsNull test
call_trace_func_always(uctx, func, id, env, msg) ==
    LET a == create_trace_func_args(uctx, id, env)
        call == HPy_CallTupleDict(uctx, func, a.h, HPy_NULL, env.res_ok)
        res == call.res
    IN  IF EndsFatal(a.log)
        THEN a.log
        ELSE a.log \o <<call, HPy_Close(uctx, a.h)>>
                   \o (IF HPy_IsNull(res) THEN <<HPy_FatalError(uctx, msg)>> ELSE <<>>)

\* the `if (!HPy_IsNull(func)) { ... }` block of on_enter and on_exit:
\* the calls made through uctx, in order
call_trace_func(uctx, func, id, env, msg) ==
    LET a == create_trace_func_args(uctx, id, env)
        call == HPy_CallTupleDict(uctx, func, a.h, HPy_NULL, env.res_ok)
        res == call.res
    IN  IF HPy_IsNull(func)
        THEN <<>>
        ELSE IF EndsFatal(a.log)
        THEN a.log
        ELSE a.log \o <<call, HPy_Close(uctx, a.h)>>
                   \o (IF HPy_IsNull(res) THEN <<HPy_FatalError(uctx, msg)>> ELSE <<>>)

RECURSIVE TotalCalls(_, _)
TotalCalls(n, k) == IF k = 0 THEN 0 ELSE n[k - 1] + TotalCalls(n, k - 1)

\* mutant: counts every call under id 0
increment_call_count_slot0(call_counts, id) == [call_counts EXCEPT ![0] = @ + 1]

\* tctx_info->call_counts[id]++
increment_call_count(call_counts, id) == [call_counts EXCEPT ![id] = @ + 1]

hpy_trace_on_enter(id, env) ==
    LET tctx_info == get_info
        uctx == tctx_info.uctx
        log == call_trace_func(uctx, tctx_info.on_enter_func, id, env,
                               "error when executing on-enter trace function")
    IN  /\ Alive
        /\ tctx_private # "NULL"
        /\ last.op # "on_enter"
        /\ info' = [info EXCEPT !.call_counts = increment_call_count(@, id)]
        /\ uctx_log' = log
        /\ fatal' = FatalOf(log)
        /\ last' = IF EndsFatal(log)
                   THEN Call("on_enter", uctx, id, 0, 0, FALSE, 0, "NULL")
                   ELSE Call("on_enter", uctx, id, 0, 0, TRUE, 0, tctx_private)
        /\ n_enter' = [n_enter EXCEPT ![id] = @ + 1]
        /\ UNCHANGED <<ndebug, win32, tctx_private, stdout, n_exit, elapsed_sum,
                       closed_handles, life, ud, frames, sync>>

\* mutant: fails only when both reads failed
CLOCK_FAILED_both(_R0, _R1) ==
    IF win32 THEN (_R0 = 0) /\ (_R1 = 0) ELSE (_R0 * _R1) # 0

CLOCK_FAILED(_R0, _R1) ==
    IF win32 THEN (_R0 = 0) \/ (_R1 = 0) ELSE (_R0 + _R1) # 0

\* mutant: the borrow case does not add the period back
update_duration_noperiod(res, start, end) ==
    IF win32
    THEN Qp(res.QuadPart + end.QuadPart - start.QuadPart)
    ELSE IF end.tv_nsec < start.tv_nsec
         THEN Ts(res.tv_sec + end.tv_sec - start.tv_sec - 1,
                 res.tv_nsec + end.tv_nsec - start.tv_nsec)
         ELSE Ts(res.tv_sec + end.tv_sec - start.tv_sec,
                 res.tv_nsec + end.tv_nsec - start.tv_nsec)

\* mutant: assigns the elapsed time instead of adding it
update_duration_assign(res, start, end) ==
    IF win32
    THEN Qp(end.QuadPart - start.QuadPart)
    ELSE IF end.tv_nsec < start.tv_nsec
         THEN Ts(end.tv_sec - start.tv_sec - 1,
                 end.tv_nsec - start.tv_nsec + FREQ_NSEC)
         ELSE Ts(end.tv_sec - start.tv_sec,
                 end.tv_nsec - start.tv_nsec)

update_duration(res, start, end) ==
    IF win32
    THEN Qp(res.QuadPart + end.QuadPart - start.QuadPart)
    ELSE IF end.tv_nsec < start.tv_nsec
         THEN Ts(res.tv_sec + end.tv_sec - start.tv_sec - 1,
                 res.tv_nsec + end.tv_nsec - start.tv_nsec + FREQ_NSEC)
         ELSE Ts(res.tv_sec + end.tv_sec - start.tv_sec,
                 res.tv_nsec + end.tv_nsec - start.tv_nsec)

\* the assert() lines of update_duration
update_duration_asserts(res, start, end) ==
    IF win32
    THEN update_duration(res, start, end).QuadPart >= 0
    ELSE /\ (end.tv_nsec < start.tv_nsec) => (end.tv_sec > start.tv_sec)
         /\ update_duration(res, start, end).tv_sec >= 0
         /\ update_duration(res, start, end).tv_nsec >= 0

\* history: end - start in clock units, added to the normalized sum s
ElapsedTicks(start, end) ==
    IF win32 THEN end.QuadPart - start.QuadPart
    ELSE (end.tv_sec - start.tv_sec) * FREQ_NSEC + (end.tv_nsec - start.tv_nsec)
AddElapsed(s, start, end) ==
    LET e == ElapsedTicks(start, end) IN
    IF win32 THEN Qp(s.QuadPart + e)
    ELSE LET n == s.tv_nsec + (e % FREQ_NSEC)
         IN  Ts(s.tv_sec + (e \div FREQ_NSEC) + (n \div FREQ_NSEC), n % FREQ_NSEC)
Normalized(d) ==
    IF win32 THEN d
    ELSE Ts(d.tv_sec + (d.tv_nsec \div FREQ_NSEC), d.tv_nsec % FREQ_NSEC)

WithinCap(d) == IF win32 THEN TRUE ELSE d.tv_nsec <= NsecCap

hpy_trace_on_exit(id, r0, r1, _ts_start, _ts_end, env) ==
    LET uctx == info.uctx
        clock == <<HPy_FatalError(uctx, "could not get monotonic clock123")>>
        log == call_trace_func(uctx, info.on_exit_func, id, env,
                               "error when executing on-exit trace function")
    IN  /\ Alive
        /\ last.op = "on_enter"
        /\ IF CLOCK_FAILED(r0, r1)
           THEN /\ stdout' = Append(stdout, <<"Could not get monotonic clock in %s",
                                              hpy_trace_get_func_name(id)>>)
                /\ uctx_log' = clock
                /\ fatal' = FatalOf(clock)
                /\ last' = Call("on_exit", uctx, id, r0, r1, FALSE, 0, "NULL")
                /\ UNCHANGED <<info, n_exit, elapsed_sum>>
           ELSE IF ~ndebug /\ ~update_duration_asserts(info.durations[id], _ts_start, _ts_end)
           THEN /\ fatal' = AssertFailed("update_duration")
                /\ uctx_log' = <<>>
                /\ last' = Call("on_exit", uctx, id, r0, r1, FALSE, 0, "NULL")
                /\ UNCHANGED <<info, n_exit, elapsed_sum, stdout>>
           ELSE /\ info' = [info EXCEPT !.durations[id] =
                                update_duration(@, _ts_start, _ts_end)]
                /\ uctx_log' = log
                /\ fatal' = FatalOf(log)
                /\ last' = Call("on_exit", uctx, id, r0, r1, ~EndsFatal(log), 0, "NULL")
                /\ n_exit' = [n_exit EXCEPT ![id] = @ + 1]
                /\ elapsed_sum' = [elapsed_sum EXCEPT
                                     ![id] = AddElapsed(@, _ts_start, _ts_end)]
                /\ UNCHANGED stdout
        /\ UNCHANGED <<ndebug, win32, tctx_private, n_enter, closed_handles, life, ud, frames, sync>>

(***************************************************************************)
(* The call-site wrappers: on_enter, the two clock reads around the real   *)
(* operation, on_exit with the handle and the id of the on_enter.          *)
(***************************************************************************)
WrapperEnter ==
    \E id \in OperationIds, env \in Envs :
        /\ tctx_private # "NULL"
        /\ TotalCalls(n_enter, NumOps) < MaxCalls
        /\ hpy_trace_on_enter(id, env)

\* a failed read leaves its timestamp uninitialized: any value;
\* two successful reads of the monotonic clock are ordered
WrapperExit ==
    \E r0 \in ClockStatuses, r1 \in ClockStatuses, s \in Times, e \in Times, env \in Envs :
        /\ IF ReadOk(r0) /\ ReadOk(r1) THEN TimeLE(s, e) ELSE TRUE
        /\ last.h = tctx_private
        /\ WithinCap(info.durations[last.id])
        /\ hpy_trace_on_exit(last.id, r0, r1, s, e, env)

InitCall ==
    \E uctx \in Uctxs, malloc_ok \in BOOLEAN : hpy_trace_ctx_init(uctx, malloc_ok)

SetCall ==
    \E f \in {HPy_NULL, OnEnterCallable}, g \in {HPy_NULL, OnExitCallable} :
        set_trace_functions(f, g)

FreeCall == \E cleared \in BOOLEAN : hpy_trace_ctx_free(cleared)

NoUd == [n |-> 0, res |-> Ts(0, 0), prev |-> Ts(0, 0), start |-> Ts(0, 0), end |-> Ts(0, 0)]

Init ==
    /\ ndebug \in BOOLEAN
    /\ win32 \in BOOLEAN
    /\ tctx_private = "NULL"
    /\ info = Unallocated
    /\ fatal = NoFatal
    /\ stdout = <<>>
    /\ last = NoCall
    /\ uctx_log = <<>>
    /\ n_enter = [o \in OperationIds |-> 0]
    /\ n_exit = [o \in OperationIds |-> 0]
    /\ elapsed_sum = [o \in OperationIds |-> ZeroTime]
    /\ closed_handles = {}
    /\ life = "new"
    /\ frames = [t \in Threads |-> <<>>]
    /\ sync = TRUE
    /\ ud = NoUd

Next ==
    \/ InitCall
    \/ SetCall
    \/ WrapperEnter
    \/ WrapperExit

Spec == Init /\ [][Next]_vars

(***************************************************************************)
(* SpecLife: the trace context with its shutdown, hpy_trace_ctx_free,      *)
(* called between the wrapper calls like hpy_trace_ctx_init.               *)
(***************************************************************************)
WrapperEnterLife ==
    \E id \in OperationIds, env \in Envs :
        /\ tctx_private # "NULL"
        /\ TotalCalls(n_enter, NumOps) < MaxLifeCalls
        /\ hpy_trace_on_enter(id, env)

NextLife ==
    \/ InitCall
    \/ SetCall
    \/ WrapperEnterLife
    \/ WrapperExit
    \/ FreeCall

SpecLife == Init /\ [][NextLife]_vars

(***************************************************************************)
(* SpecAcc: update_duration on its own.  A running total, zero at first,   *)
(* accumulates the elapsed time between two ordered timestamps.            *)
(***************************************************************************)
AccTimes ==
    IF win32 THEN {Qp(0), Qp(100), Qp(350)}
    ELSE {Ts(s, n) : s \in {0, 1, 2}, n \in {0, 1, 999999999}}

Accumulate(start, end) ==
    /\ ud.n < MaxCalls
    /\ TimeLE(start, end)
    /\ WithinCap(ud.res)
    /\ ud' = [n |-> ud.n + 1,
              res |-> update_duration(ud.res, start, end),
              prev |-> ud.res,
              start |-> start,
              end |-> end]
    /\ UNCHANGED <<ndebug, win32, tctx_private, info, fatal, stdout, last,
                   uctx_log, n_enter, n_exit, elapsed_sum, closed_handles, life,
                   frames, sync>>

InitAcc ==
    /\ ndebug \in BOOLEAN
    /\ win32 \in BOOLEAN
    /\ tctx_private = "NULL"
    /\ info = Unallocated
    /\ fatal = NoFatal
    /\ stdout = <<>>
    /\ last = NoCall
    /\ uctx_log = <<>>
    /\ n_enter = [o \in OperationIds |-> 0]
    /\ n_exit = [o \in OperationIds |-> 0]
    /\ elapsed_sum = [o \in OperationIds |-> ZeroTime]
    /\ closed_handles = {}
    /\ life = "new"
    /\ frames = [t \in Threads |-> <<>>]
    /\ sync = TRUE
    /\ ud = [n |-> 0, res |-> ZeroTime, prev |-> ZeroTime,
             start |-> ZeroTime, end |-> ZeroTime]

NextAcc == \E start \in AccTimes, end \in AccTimes : Accumulate(start, end)

SpecAcc == InitAcc /\ [][NextAcc]_vars

(***************************************************************************)
(* SpecNested, SpecThreads: hpy_trace_on_enter and hpy_trace_on_exit       *)
(* statement by statement.  A frame is one call-site wrapper call in       *)
(* progress on a thread: it is in on_enter, then in the wrapped operation, *)
(* then in on_exit.  The trace function runs between trace_call and        *)
(* trace_ret; in SpecNested it makes wrapper calls of its own on the same  *)
(* thread, in SpecThreads two threads make wrapper calls.                  *)
(***************************************************************************)
hpy_trace_on_enter_stmts_split == <<"count_load", "trace_call", "trace_ret", "count_store">>

hpy_trace_on_enter_stmts_late == <<"trace_call", "trace_ret", "count_load", "count_store">>

\* the statements of hpy_trace_on_enter in order: call_counts[id]++ (the
\* load and the store), the test of the hook with the arguments and the
\* call, the close of the arguments with the test of the result
hpy_trace_on_enter_stmts == <<"count_load", "count_store", "trace_call", "trace_ret">>

\* the statements of hpy_trace_on_exit in order: the clock check,
\* update_duration (a load and a store for each +=), the trace function
hpy_trace_on_exit_stmts ==
    IF win32
    THEN <<"clock_check", "quad_load", "quad_store", "trace_call", "trace_ret">>
    ELSE <<"clock_check", "sec_load", "sec_store", "nsec_load", "nsec_store",
           "trace_call", "trace_ret">>

\* cnt, dur: the values loaded; r0 .. ts_end: the arguments of on_exit
Frame(fn, pc, id, cnt, dur, r0, r1, s, e) ==
    [fn |-> fn, pc |-> pc, id |-> id, cnt |-> cnt, dur |-> dur,
     r0 |-> r0, r1 |-> r1, ts_start |-> s, ts_end |-> e]
EnterFrame(id) == Frame("on_enter", 1, id, 0, ZeroTime, 0, 0, ZeroTime, ZeroTime)

Top(t) == frames[t][Len(frames[t])]
StmtsOf(f) == IF f.fn = "on_enter" THEN hpy_trace_on_enter_stmts
              ELSE IF f.fn = "on_exit" THEN hpy_trace_on_exit_stmts
              ELSE <<>>
\* the frame is inside the trace function it called
InObserver(f) == f.pc \in DOMAIN StmtsOf(f) /\ StmtsOf(f)[f.pc] = "trace_ret"

\* a thread is inside on_enter or on_exit
Running(u) == \E i \in DOMAIN frames[u] : frames[u][i].fn \in {"on_enter", "on_exit"}
\* external synchronization: no other thread is inside on_enter / on_exit
MayRun(t) == sync => \A u \in Threads \ {t} : ~Running(u)

\* the stacks after the top frame f of t has run k statements: past the
\* last statement on_enter returns to the wrapper (the operation runs) and
\* on_exit returns and the wrapper call is over
After(t, f, k) ==
    LET n == Len(frames[t])
    IN  IF f.pc + k <= Len(StmtsOf(f))
        THEN [frames EXCEPT ![t] = [@ EXCEPT ![n] = [f EXCEPT !.pc = f.pc + k]]]
        ELSE IF f.fn = "on_enter"
        THEN [frames EXCEPT ![t] = [@ EXCEPT ![n] = [f EXCEPT !.fn = "operation", !.pc = 0]]]
        ELSE [frames EXCEPT ![t] = SubSeq(@, 1, n - 1)]

\* tctx_info->call_counts[id]++ : the load
count_load(call_counts, id) == call_counts[id]

count_store_twice(call_counts, id, cnt) == [call_counts EXCEPT ![id] = cnt + 2]

\* tctx_info->call_counts[id]++ : the store of the loaded value plus one
count_store(call_counts, id, cnt) == [call_counts EXCEPT ![id] = cnt + 1]

\* one statement of hpy_trace_on_enter on thread t
hpy_trace_on_enter_step(t, env) ==
    LET f == Top(t)
        stmt == hpy_trace_on_enter_stmts[f.pc]
        tctx_info == get_info
        uctx == tctx_info.uctx
        a == create_trace_func_args(uctx, f.id, env)
        log == call_trace_func(uctx, tctx_info.on_enter_func, f.id, env,
                               "error when executing on-enter trace function")
    IN  /\ Alive
        /\ frames[t] # <<>>
        /\ f.fn = "on_enter"
        /\ MayRun(t)
        /\ IF stmt = "count_load"
           THEN /\ frames' = After(t, [f EXCEPT !.cnt = count_load(tctx_info.call_counts, f.id)], 1)
                /\ UNCHANGED <<info, fatal, uctx_log>>
           ELSE IF stmt = "count_store"
           THEN /\ info' = [info EXCEPT !.call_counts = count_store(@, f.id, f.cnt)]
                /\ frames' = After(t, f, 1)
                /\ UNCHANGED <<fatal, uctx_log>>
           ELSE IF stmt = "trace_call"
           THEN IF HPy_IsNull(tctx_info.on_enter_func)
                THEN /\ frames' = After(t, f, 2)
                     /\ UNCHANGED <<info, fatal, uctx_log>>
                ELSE /\ uctx_log' = a.log
                     /\ fatal' = FatalOf(a.log)
                     /\ frames' = IF EndsFatal(a.log) THEN frames ELSE After(t, f, 1)
                     /\ UNCHANGED info
           ELSE \* trace_ret: the trace function returns
                /\ env.name_ok
                /\ env.tuple_ok
                /\ uctx_log' = log
                /\ fatal' = FatalOf(log)
                /\ frames' = IF EndsFatal(log) THEN frames ELSE After(t, f, 1)
                /\ UNCHANGED info
        /\ UNCHANGED <<ndebug, win32, tctx_private, stdout, last, n_enter, n_exit,
                       elapsed_sum, closed_handles, life, ud, sync>>

\* one statement of hpy_trace_on_exit on thread t
hpy_trace_on_exit_step(t, env) ==
    LET f == Top(t)
        stmt == hpy_trace_on_exit_stmts[f.pc]
        uctx == info.uctx
        clock == <<HPy_FatalError(uctx, "could not get monotonic clock123")>>
        res == info.durations[f.id]
        new == update_duration(f.dur, f.ts_start, f.ts_end)
        a == create_trace_func_args(uctx, f.id, env)
        log == call_trace_func(uctx, info.on_exit_func, f.id, env,
                               "error when executing on-exit trace function")
    IN  /\ Alive
        /\ frames[t] # <<>>
        /\ f.fn = "on_exit"
        /\ MayRun(t)
        /\ IF stmt = "clock_check"
           THEN IF CLOCK_FAILED(f.r0, f.r1)
                THEN /\ stdout' = Append(stdout, <<"Could not get monotonic clock in %s",
                                                   hpy_trace_get_func_name(f.id)>>)
                     /\ uctx_log' = clock
                     /\ fatal' = FatalOf(clock)
                     /\ UNCHANGED <<info, frames, n_exit, elapsed_sum>>
                ELSE /\ frames' = After(t, f, 1)
                     /\ n_exit' = [n_exit EXCEPT ![f.id] = @ + 1]
                     /\ elapsed_sum' = [elapsed_sum EXCEPT
                                          ![f.id] = AddElapsed(@, f.ts_start, f.ts_end)]
                     /\ UNCHANGED <<info, fatal, stdout, uctx_log>>
           ELSE IF stmt = "quad_load"
           THEN /\ frames' = After(t, [f EXCEPT !.dur = res], 1)
                /\ UNCHANGED <<info, fatal, stdout, uctx_log, n_exit, elapsed_sum>>
           ELSE IF stmt = "quad_store"
           THEN /\ info' = [info EXCEPT !.durations[f.id] = new]
                /\ IF ~ndebug /\ new.QuadPart < 0
                   THEN fatal' = AssertFailed("res->QuadPart >= 0") /\ UNCHANGED frames
                   ELSE frames' = After(t, f, 1) /\ UNCHANGED fatal
                /\ UNCHANGED <<stdout, uctx_log, n_exit, elapsed_sum>>
           ELSE IF stmt = "sec_load"
           THEN /\ IF ~ndebug /\ f.ts_end.tv_nsec < f.ts_start.tv_nsec
                              /\ ~(f.ts_end.tv_sec > f.ts_start.tv_sec)
                   THEN fatal' = AssertFailed("end->tv_sec > start->tv_sec")
                        /\ UNCHANGED frames
                   ELSE frames' = After(t, [f EXCEPT !.dur.tv_sec = res.tv_sec], 1)
                        /\ UNCHANGED fatal
                /\ UNCHANGED <<info, stdout, uctx_log, n_exit, elapsed_sum>>
           ELSE IF stmt = "sec_store"
           THEN /\ info' = [info EXCEPT !.durations[f.id].tv_sec = new.tv_sec]
                /\ frames' = After(t, f, 1)
                /\ UNCHANGED <<fatal, stdout, uctx_log, n_exit, elapsed_sum>>
           ELSE IF stmt = "nsec_load"
           THEN /\ WithinCap(res)
                /\ frames' = After(t, [f EXCEPT !.dur.tv_nsec = res.tv_nsec], 1)
                /\ UNCHANGED <<info, fatal, stdout, uctx_log, n_exit, elapsed_sum>>
           ELSE IF stmt = "nsec_store"
           THEN /\ info' = [info EXCEPT !.durations[f.id].tv_nsec = new.tv_nsec]
                /\ IF ~ndebug /\ (res.tv_sec < 0 \/ new.tv_nsec < 0)
                   THEN fatal' = AssertFailed("res->tv_sec >= 0, res->tv_nsec >= 0")
                        /\ UNCHANGED frames
                   ELSE frames' = After(t, f, 1) /\ UNCHANGED fatal
                /\ UNCHANGED <<stdout, uctx_log, n_exit, elapsed_sum>>
           ELSE IF stmt = "trace_call"
           THEN IF HPy_IsNull(info.on_exit_func)
                THEN /\ frames' = After(t, f, 2)
                     /\ UNCHANGED <<info, fatal, stdout, uctx_log, n_exit, elapsed_sum>>
                ELSE /\ uctx_log' = a.log
                     /\ fatal' = FatalOf(a.log)
                     /\ frames' = IF EndsFatal(a.log) THEN frames ELSE After(t, f, 1)
                     /\ UNCHANGED <<info, stdout, n_exit, elapsed_sum>>
           ELSE \* trace_ret: the trace function returns
                /\ env.name_ok
                /\ env.tuple_ok
                /\ uctx_log' = log
                /\ fatal' = FatalOf(log)
                /\ frames' = IF EndsFatal(log) THEN frames ELSE After(t, f, 1)
                /\ UNCHANGED <<info, stdout, n_exit, elapsed_sum>>
        /\ UNCHANGED <<ndebug, win32, tctx_private, last, n_enter, closed_handles,
                       life, ud, sync>>

\* a frame is pushed: the wrapper calls hpy_trace_on_enter(tctx, id)
CallOnEnter(t, id) ==
    /\ Alive
    /\ MayRun(t)
    /\ TotalCalls(n_enter, NumOps) < MaxCalls
    /\ frames' = [frames EXCEPT ![t] = Append(@, EnterFrame(id))]
    /\ n_enter' = [n_enter EXCEPT ![id] = @ + 1]
    /\ UNCHANGED <<ndebug, win32, tctx_private, info, fatal, stdout, last, uctx_log,
                   n_exit, elapsed_sum, closed_handles, life, ud, sync>>

\* the application calls a wrapped operation
WrapperCall(t) ==
    \E id \in OperationIds :
        /\ frames[t] = <<>>
        /\ CallOnEnter(t, id)

\* the trace function, while it runs, calls a wrapped operation
ObserverReenters(t) ==
    \E id \in OperationIds :
        /\ frames[t] # <<>>
        /\ Len(frames[t]) < MaxDepth
        /\ InObserver(Top(t))
        /\ CallOnEnter(t, id)

\* the timestamps the wrappers read: no time, or some, passes between two
\* reads (on POSIX with a borrow)
StepTimes == IF win32 THEN {Qp(100), Qp(350)} ELSE {Ts(0, 100), Ts(1, 0)}

\* on_enter has returned: the wrapper reads the clock around the operation
\* and calls hpy_trace_on_exit with the id of its on_enter
WrapperReads(t) ==
    \E r0 \in ClockStatuses, r1 \in ClockStatuses, s \in StepTimes, e \in StepTimes :
        /\ Alive
        /\ frames[t] # <<>>
        /\ Top(t).fn = "operation"
        /\ MayRun(t)
        /\ IF ReadOk(r0) /\ ReadOk(r1) THEN TimeLE(s, e) ELSE TRUE
        /\ WithinCap(info.durations[Top(t).id])
        /\ frames' = [frames EXCEPT ![t] = [@ EXCEPT ![Len(@)] =
                         Frame("on_exit", 1, Top(t).id, 0, ZeroTime, r0, r1, s, e)]]
        /\ UNCHANGED <<ndebug, win32, tctx_private, info, fatal, stdout, last, uctx_log,
                       n_enter, n_exit, elapsed_sum, closed_handles, life, ud, sync>>

OnEnterStep(t) == \E env \in Envs : hpy_trace_on_enter_step(t, env)
OnExitStep(t) == \E env \in Envs : hpy_trace_on_exit_step(t, env)

\* an initialized context with the hooks the setter left
InitSteps ==
    /\ ndebug \in BOOLEAN
    /\ win32 \in BOOLEAN
    /\ tctx_private = "info"
    /\ \E f \in {HPy_NULL, OnEnterCallable}, g \in {HPy_NULL, OnExitCallable} :
          info = [trace_ctx_init_info("uctx1", ClockResolution)
                    EXCEPT !.on_enter_func = f, !.on_exit_func = g]
    /\ fatal = NoFatal
    /\ stdout = <<>>
    /\ last = NoCall
    /\ uctx_log = <<>>
    /\ n_enter = [o \in OperationIds |-> 0]
    /\ n_exit = [o \in OperationIds |-> 0]
    /\ elapsed_sum = [o \in OperationIds |-> ZeroTime]
    /\ closed_handles = {}
    /\ life = "new"
    /\ ud = NoUd
    /\ frames = [t \in Threads |-> <<>>]

InitNested == InitSteps /\ sync = TRUE

NextNested ==
    \/ WrapperCall(1)
    \/ ObserverReenters(1)
    \/ OnEnterStep(1)
    \/ WrapperReads(1)
    \/ OnExitStep(1)

SpecNested == InitNested /\ [][NextNested]_vars

InitThreads == InitSteps /\ sync \in BOOLEAN

\* the operations the two threads call: each thread calls the one the other
\* calls, or another one
SharedIds == {o \in OperationIds : o < 2}

\* a thread of the application calls a wrapped operation
ThreadCall(t) ==
    \E id \in SharedIds :
        /\ frames[t] = <<>>
        /\ CallOnEnter(t, id)

NextThreads ==
    \E t \in Threads :
        \/ ThreadCall(t)
        \/ OnEnterStep(t)
        \/ WrapperReads(t)
        \/ OnExitStep(t)

SpecThreads == InitThreads /\ [][NextThreads]_vars

(***************************************************************************)
(* Properties.                                                             *)
(***************************************************************************)
ObserverCalls(log) == SelectSeq(log, LAMBDA c : c.fn = "HPy_CallTupleDict")
ArgsFailed(log) ==
    \E i \in DOMAIN log :
        /\ log[i].fn \in {"HPyUnicode_FromString", "HPyTuple_FromArray"}
        /\ HPy_IsNull(log[i].res)
ObserverReturnedNull(log) ==
    \E i \in DOMAIN log : log[i].fn = "HPy_CallTupleDict" /\ HPy_IsNull(log[i].res)
CallsTo(log, fn) == Cardinality({i \in DOMAIN log : log[i].fn = fn})
\* the arguments of the one call a trace function is to get for id:
\* the callable, the tuple (name,) and no keyword arguments
ExpectedCall(func, id) ==
    <<func, [kind |-> "tuple", val |-> <<hpy_trace_get_func_name(id)>>], HPy_NULL>>
ClockReadFailed(c) == ~ReadOk(c.r0) \/ ~ReadOk(c.r1)
ArgsMsg == "could not create arguments for user trace function"
EnterMsg == "error when executing on-enter trace function"
ExitMsg == "error when executing on-exit trace function"
ClockMsg == "could not get monotonic clock123"

\* C1: on an initialized context, call_counts[o] equals the number of
\* hpy_trace_on_enter(tctx, o) calls made so far, for every id o at once:
\* N calls for o give N, and the calls for o leave every other count as it
\* was.  It holds whether or not a trace function failed.
C1_CountsEqualEnterCalls ==
    tctx_private # "NULL" =>
        \A o \in OperationIds : info.call_counts[o] = n_enter[o]

C1_Witness ==
    /\ tctx_private # "NULL"
    /\ n_enter[1] = 2
    /\ info.call_counts[1] = 2
    /\ info.call_counts[0] = 0

\* C2: hpy_trace_ctx_init on a context already initialized for the same
\* uctx returns 0 and changes neither the installed info (uctx, counts,
\* durations, hooks) nor tctx->_private, and allocates nothing; the call
\* that installed the info returned 0 as well.
C2_SecondInitIsNoOp ==
    [][/\ (last'.op = "init" /\ tctx_private # "NULL" /\ last'.uctx = info.uctx) =>
            /\ last'.returned
            /\ last'.rc = 0
            /\ info' = info
            /\ tctx_private' = tctx_private
            /\ fatal' = fatal
            /\ CallsTo(uctx_log', "malloc") = 0
       /\ (tctx_private = "NULL" /\ tctx_private' # "NULL") =>
            /\ last'.op = "init"
            /\ last'.returned
            /\ last'.rc = 0
      ]_vars

C2_Witness ==
    /\ last.op = "init"
    /\ last.uctx = info.uctx
    /\ last.rc = 0
    /\ uctx_log = <<>>
    /\ ~HPy_IsNull(info.on_enter_func)
    /\ \E o \in OperationIds :
          info.call_counts[o] > 0 /\ info.durations[o] # ZeroTime

\* C3: an hpy_trace_on_exit call with at least one failed clock read ends
\* in HPy_FatalError on the underlying context, does not return, calls no
\* trace function and leaves every duration as it was.
C3_ClockFailureIsFatal ==
    [][(last'.op = "on_exit" /\ ClockReadFailed(last')) =>
            /\ fatal'.via = "HPy_FatalError"
            /\ fatal'.ctx = info.uctx
            /\ fatal'.msg = ClockMsg
            /\ ~last'.returned
            /\ ObserverCalls(uctx_log') = <<>>
            /\ info'.durations = info.durations
      ]_vars

C3_Witness ==
    /\ last.op = "on_exit"
    /\ ReadOk(last.r0)
    /\ ~ReadOk(last.r1)
    /\ fatal.msg = ClockMsg
    /\ ~HPy_IsNull(info.on_exit_func)
    /\ \E o \in OperationIds : info.durations[o] # ZeroTime

\* C4: for a seconds+nanoseconds duration, the accumulated total keeps its
\* nanoseconds below one period (the carry goes into the seconds); a total
\* of (0s,999999999ns) plus an elapsed (1s,1ns) is (2s,0ns).
C4_TotalCarriesIntoSeconds ==
    (~win32 /\ ud.n > 0) =>
        /\ ud.res.tv_nsec < FREQ_NSEC
        /\ (ud.prev = Ts(0, 999999999) /\ ud.start = Ts(0, 0) /\ ud.end = Ts(1, 1)) =>
               ud.res = Ts(2, 0)

\* C5: with end >= start, update_duration adds a non-negative amount to
\* each component: seconds and nanoseconds after the call are >= those
\* before and never negative; in the borrow case (end.nsec < start.nsec,
\* so end.sec > start.sec) the amounts are end.sec - start.sec - 1 and
\* end.nsec - start.nsec + period.
C5_ComponentsNeverDecrease ==
    (~win32 /\ ud.n > 0) =>
        /\ ud.res.tv_sec >= ud.prev.tv_sec
        /\ ud.res.tv_nsec >= ud.prev.tv_nsec
        /\ ud.res.tv_sec >= 0
        /\ ud.res.tv_nsec >= 0
        /\ (ud.end.tv_nsec < ud.start.tv_nsec) =>
              /\ ud.end.tv_sec > ud.start.tv_sec
              /\ ud.res.tv_sec - ud.prev.tv_sec = ud.end.tv_sec - ud.start.tv_sec - 1
              /\ ud.res.tv_nsec - ud.prev.tv_nsec =
                     ud.end.tv_nsec - ud.start.tv_nsec + FREQ_NSEC

C5_Witness ==
    /\ ~win32
    /\ ud.n > 1
    /\ ud.end.tv_nsec < ud.start.tv_nsec
    /\ ud.end.tv_sec = ud.start.tv_sec + 1
    /\ ud.res.tv_nsec > ud.prev.tv_nsec

\* the one call of the trace function func for last.id, through info.uctx
OneExpectedCall(func) ==
    /\ Len(ObserverCalls(uctx_log)) = 1
    /\ ObserverCalls(uctx_log)[1].ctx = info.uctx
    /\ ObserverCalls(uctx_log)[1].hs = ExpectedCall(func, last.id)

\* C6 as stated: with a trace function installed, every on_enter (on_exit)
\* call makes exactly one call of it, through uctx, with the tuple (name of
\* the id,) and no keywords; with none installed no call is made and the
\* count (duration) is still updated.
C6_EveryCallInvokesObserver ==
    /\ (last.op = "on_enter" /\ ~HPy_IsNull(info.on_enter_func)) =>
           OneExpectedCall(info.on_enter_func)
    /\ (last.op = "on_exit" /\ ~HPy_IsNull(info.on_exit_func)) =>
           OneExpectedCall(info.on_exit_func)
    /\ (last.op = "on_enter" /\ HPy_IsNull(info.on_enter_func)) =>
           /\ ObserverCalls(uctx_log) = <<>>
           /\ info.call_counts[last.id] = n_enter[last.id]
    /\ (last.op = "on_exit" /\ HPy_IsNull(info.on_exit_func)) =>
           /\ ObserverCalls(uctx_log) = <<>>
           /\ Normalized(info.durations[last.id]) = elapsed_sum[last.id]

\* C6 amended: with a trace function installed, an on_enter call whose
\* argument construction succeeds, and an on_exit call whose clock reads
\* and argument construction succeed, makes exactly one call of it, through
\* uctx, with the tuple (name of the id,) and no keywords; a call whose
\* argument construction (or clock read) fails makes none.  With none
\* installed no call is made, the count is incremented and (clock reads
\* succeeding) the duration accumulated.
C6_InvokesObserverUnlessFailed ==
    /\ (last.op = "on_enter" /\ ~HPy_IsNull(info.on_enter_func)) =>
           IF ArgsFailed(uctx_log)
           THEN ObserverCalls(uctx_log) = <<>>
           ELSE OneExpectedCall(info.on_enter_func)
    /\ (last.op = "on_exit" /\ ~HPy_IsNull(info.on_exit_func)) =>
           IF ClockReadFailed(last) \/ ArgsFailed(uctx_log)
           THEN ObserverCalls(uctx_log) = <<>>
           ELSE OneExpectedCall(info.on_exit_func)
    /\ (last.op = "on_enter" /\ HPy_IsNull(info.on_enter_func)) =>
           /\ uctx_log = <<>>
           /\ last.returned
           /\ n_enter[last.id] > 0
           /\ info.call_counts[last.id] = n_enter[last.id]
    /\ (last.op = "on_exit" /\ HPy_IsNull(info.on_exit_func)) =>
           /\ ObserverCalls(uctx_log) = <<>>
           /\ ~ClockReadFailed(last) =>
                  /\ last.returned
                  /\ n_exit[last.id] > 0
                  /\ Normalized(info.durations[last.id]) = elapsed_sum[last.id]

C6_Witness ==
    /\ last.op = "on_enter"
    /\ last.id = 1
    /\ last.returned
    /\ info.on_enter_func = OnEnterCallable
    /\ Len(ObserverCalls(uctx_log)) = 1
    /\ ObserverCalls(uctx_log)[1].hs[2].val = <<"free">>

\* C7: when building the arguments fails or the trace function returns a
\* null result, on_enter / on_exit ends in HPy_FatalError on the underlying
\* context and does not return; after a failed argument construction the
\* trace function is not called; nothing is attempted twice; and a null
\* result is reported with the on-enter message in on_enter and with the
\* on-exit message in on_exit.
C7_ObserverFailureIsFatal ==
    (last.op \in {"on_enter", "on_exit"}) =>
        /\ ArgsFailed(uctx_log) =>
              /\ fatal = [via |-> "HPy_FatalError", ctx |-> info.uctx, msg |-> ArgsMsg]
              /\ ~last.returned
              /\ ObserverCalls(uctx_log) = <<>>
        /\ ObserverReturnedNull(uctx_log) =>
              /\ fatal = [via |-> "HPy_FatalError", ctx |-> info.uctx,
                          msg |-> IF last.op = "on_enter" THEN EnterMsg ELSE ExitMsg]
              /\ ~last.returned
        /\ CallsTo(uctx_log, "HPyUnicode_FromString") <= 1
        /\ CallsTo(uctx_log, "HPyTuple_FromArray") <= 1
        /\ CallsTo(uctx_log, "HPy_CallTupleDict") <= 1
        /\ CallsTo(uctx_log, "HPy_FatalError") <= 1
        /\ fatal.msg = EnterMsg => last.op = "on_enter"
        /\ fatal.msg = ExitMsg => last.op = "on_exit"

C7_Witness ==
    /\ last.op = "on_exit"
    /\ ObserverReturnedNull(uctx_log)
    /\ fatal.msg = ExitMsg
    /\ n_enter[2] = 2

\* C8: a failed allocation in hpy_trace_ctx_init is reported with
\* HPyErr_NoMemory on uctx, the call returns -1 and tctx->_private stays
\* NULL; every init call on a context whose _private is NULL (so also the
\* one after a failure) allocates again, and installs a fresh info and
\* returns 0 when the allocation succeeds.
C8_FailedInitLeavesUninstalled ==
    /\ [](  (last.op = "init" /\ uctx_log # <<>> /\ HPy_IsNull(uctx_log[1].res)) =>
               /\ uctx_log = <<malloc(FALSE), HPyErr_NoMemory(last.uctx)>>
               /\ last.returned
               /\ last.rc = -1
               /\ tctx_private = "NULL"
               /\ Alive)
    /\ [][(last'.op = "init" /\ tctx_private = "NULL") =>
               /\ CallsTo(uctx_log', "malloc") = 1
               /\ uctx_log'[1].fn = "malloc"
               /\ ~HPy_IsNull(uctx_log'[1].res) =>
                      /\ tctx_private' # "NULL"
                      /\ info' = trace_ctx_init_info(last'.uctx, ClockResolution)
                      /\ last'.rc = 0
         ]_vars

C8_Witness ==
    /\ last.op = "init"
    /\ last.rc = -1
    /\ tctx_private = "NULL"
    /\ uctx_log = <<malloc(FALSE), HPyErr_NoMemory("uctx2")>>

\* C9: durations[o] represents the sum of (end - start) over the on_exit
\* calls of o that had successful clock reads, and is zero for an o never
\* exited; an on_exit call for o changes no duration but that of o and no
\* call count.  (Two pairs on id 0 with 100ns and 250ns: counts [2,0,0],
\* durations[0] = 350ns, the others zero.)
C9_DurationsAreSumOfElapsed ==
    /\ [](tctx_private # "NULL" =>
            \A o \in OperationIds :
                /\ Normalized(info.durations[o]) = elapsed_sum[o]
                /\ n_exit[o] = 0 => info.durations[o] = ZeroTime)
    /\ [][last'.op = "on_exit" =>
            /\ \A p \in OperationIds \ {last'.id} :
                   info'.durations[p] = info.durations[p]
            /\ info'.call_counts = info.call_counts
         ]_vars

C9_Witness ==
    /\ ~win32
    /\ last.op = "on_exit"
    /\ last.returned
    /\ info.call_counts[0] = 2
    /\ info.durations[0] = Ts(0, 350)
    /\ \A o \in OperationIds \ {0} :
          info.call_counts[o] = 0 /\ info.durations[o] = Ts(0, 0)

\* C10: hpy_trace_ctx_init on a context already initialized for another
\* uctx never returns success and never rebinds the trace context.
C10_OtherContextFailsLoudly ==
    [][(last'.op = "init" /\ tctx_private # "NULL" /\ last'.uctx # info.uctx) =>
            /\ ~(last'.returned /\ last'.rc = 0)
            /\ info' = info
            /\ tctx_private' = tctx_private
      ]_vars

\* the closes, in a log, of the handle h
ClosesOf(log, h) ==
    {j \in DOMAIN log : log[j].fn = "HPy_Close" /\ log[j].hs = <<h>>}
\* the calls of a log that end the call: a fatal error
FatalsOf(log) == {k \in DOMAIN log : log[k].fn = "HPy_FatalError"}
\* the calls of a log that returned a handle made to build the arguments
ArgHandles(log) ==
    {i \in DOMAIN log :
        /\ log[i].fn \in {"HPyUnicode_FromString", "HPyTuple_FromArray"}
        /\ ~HPy_IsNull(log[i].res)}
\* the calls of a log that returned a handle to the caller
NewHandles(log) ==
    {i \in DOMAIN log :
        /\ log[i].fn \in {"HPyUnicode_FromString", "HPyTuple_FromArray",
                          "HPy_CallTupleDict"}
        /\ ~HPy_IsNull(log[i].res)}

\* C11: in every on_enter / on_exit call, on every path, the name string
\* and the tuple made for the arguments are each closed exactly once, after
\* they were made, with at most one call of the trace function in the call,
\* and before the call returns or reports the fatal error.
C11_ArgHandlesClosedOnce ==
    (last.op \in {"on_enter", "on_exit"}) =>
        /\ CallsTo(uctx_log, "HPy_CallTupleDict") <= 1
        /\ \A i \in ArgHandles(uctx_log) :
              /\ Cardinality(ClosesOf(uctx_log, uctx_log[i].res)) = 1
              /\ \A j \in ClosesOf(uctx_log, uctx_log[i].res) :
                    /\ j > i
                    /\ \A k \in FatalsOf(uctx_log) : j < k

\* C17: an on_enter / on_exit call that returns has closed every handle it
\* obtained (the name string, the tuple, the result of the trace function)
\* exactly once: it leaves no more handles open than it found.
C17_ReturnLeavesNoOpenHandle ==
    (last.op \in {"on_enter", "on_exit"} /\ last.returned) =>
        \A i \in NewHandles(uctx_log) :
            Cardinality(ClosesOf(uctx_log, uctx_log[i].res)) = 1

\* C14: an on_enter call for id o with no on-enter trace function installed
\* adds one to call_counts[o] and changes nothing else: every duration,
\* every other count, both hooks, counter_freq and the stored uctx are as
\* before, no call is made through uctx (and none to malloc), the process
\* goes on, and the call returns tctx->_private, the info that
\* hpy_trace_ctx_init installed and that never changes afterwards.
C14_EnterWithoutObserverOnlyCounts ==
    /\ [][(last'.op = "on_enter" /\ HPy_IsNull(info.on_enter_func)) =>
            /\ info'.call_counts[last'.id] = info.call_counts[last'.id] + 1
            /\ \A p \in OperationIds \ {last'.id} :
                   info'.call_counts[p] = info.call_counts[p]
            /\ info'.durations = info.durations
            /\ info'.on_enter_func = info.on_enter_func
            /\ info'.on_exit_func = info.on_exit_func
            /\ info'.counter_freq = info.counter_freq
            /\ info'.uctx = info.uctx
            /\ uctx_log' = <<>>
            /\ fatal' = fatal
            /\ stdout' = stdout
            /\ last'.returned
            /\ last'.h = tctx_private
            /\ last'.h # "NULL"
         ]_vars
    /\ [][tctx_private # "NULL" => tctx_private' = tctx_private]_vars

C14_Witness ==
    /\ last.op = "on_enter"
    /\ last.returned
    /\ last.h = "info"
    /\ HPy_IsNull(info.on_enter_func)
    /\ ~HPy_IsNull(info.on_exit_func)
    /\ info.call_counts[last.id] = 2
    /\ info.durations[last.id] # ZeroTime
    /\ uctx_log = <<>>

\* the trace functions the info holds
InstalledFuncs(i) == {i.on_enter_func, i.on_exit_func} \ {HPy_NULL}

C18_NoReleasedObserverAfterReinit ==
    /\ [][/\ last'.op = "free" => (tctx_private # "NULL" /\ tctx_private' = tctx_private)
          /\ (last'.op = "init" /\ life = "freed" /\ last'.uctx = info.uctx) =>
                /\ last'.returned
                /\ last'.rc = 0
                /\ CallsTo(uctx_log', "malloc") = 0
                /\ info' = info
                /\ tctx_private' = tctx_private
         ]_vars
    /\ [](life = "reinit" =>
            /\ InstalledFuncs(info) \cap closed_handles = {}
            /\ (last.op \in {"on_enter", "on_exit"}) =>
                   \A i \in DOMAIN uctx_log :
                       uctx_log[i].fn = "HPy_CallTupleDict" =>
                           uctx_log[i].hs[1] \notin closed_handles)

\* the statement the frame is at
StmtOf(f) == IF f.pc \in DOMAIN StmtsOf(f) THEN StmtsOf(f)[f.pc] ELSE "none"
AtObserver(f) == StmtOf(f) \in {"trace_call", "trace_ret"}

\* C13: when hpy_trace_on_enter is at its trace function (about to test and
\* call it, or inside it), call_counts[id] already includes this call; in
\* hpy_trace_on_exit nothing of the call is in durations[id] before the
\* clock check, no statement after the check runs with a failed clock, and
\* at the trace function durations[id] includes the elapsed time of the
\* call; so when the clock failure ends the process, call_counts[id]
\* includes the call and durations[id] holds nothing of it.
C13_ProtocolOrder ==
    /\ frames[1] # <<>> =>
          LET f == Top(1) IN
          /\ (f.fn = "on_enter" /\ AtObserver(f)) =>
                 /\ info.call_counts[f.id] = n_enter[f.id]
                 /\ info.call_counts[f.id] >= 1
          /\ (f.fn = "on_exit" /\ StmtOf(f) = "clock_check") =>
                 /\ Normalized(info.durations[f.id]) = elapsed_sum[f.id]
                 /\ n_exit[f.id] < n_enter[f.id]
          /\ (f.fn = "on_exit" /\ StmtOf(f) # "clock_check") => ~CLOCK_FAILED(f.r0, f.r1)
          /\ (f.fn = "on_exit" /\ AtObserver(f)) =>
                 /\ Normalized(info.durations[f.id]) = elapsed_sum[f.id]
                 /\ n_exit[f.id] >= 1
    /\ fatal.msg = ClockMsg =>
          /\ frames[1] # <<>>
          /\ Top(1).fn = "on_exit"
          /\ StmtOf(Top(1)) = "clock_check"
          /\ CLOCK_FAILED(Top(1).r0, Top(1).r1)
          /\ info.call_counts[Top(1).id] = n_enter[Top(1).id]
          /\ n_exit[Top(1).id] < n_enter[Top(1).id]
          /\ Normalized(info.durations[Top(1).id]) = elapsed_sum[Top(1).id]

\* the clock failed in the second call of an operation whose first call
\* took some time
C13_Witness ==
    /\ fatal.msg = ClockMsg
    /\ frames[1] # <<>>
    /\ info.call_counts[Top(1).id] = 2
    /\ n_exit[Top(1).id] = 1
    /\ info.durations[Top(1).id] # ZeroTime
    /\ Normalized(info.durations[Top(1).id]) = elapsed_sum[Top(1).id]

\* the frames of all threads that are in hpy_trace_on_enter for o
EnterFrames(o) ==
    {<<t, i>> \in Threads \X (1..MaxDepth) :
        /\ i \in DOMAIN frames[t]
        /\ frames[t][i].fn = "on_enter"
        /\ frames[t][i].id = o}
\* the hpy_trace_on_enter(o) calls that have returned
Completed(o) == n_enter[o] - Cardinality(EnterFrames(o))
\* the hpy_trace_on_enter(o) calls that have stored their count
Stored(o) ==
    n_enter[o] - Cardinality({x \in EnterFrames(o) :
                                 StmtOf(frames[x[1]][x[2]]) \in {"count_load", "count_store"}})

\* C15: call_counts[id]++ and the += of update_duration are a load and a
\* store with no lock.  When the threads are kept from being inside
\* on_enter / on_exit together, call_counts[o] is exactly the number of
\* on_enter(o) calls that have stored (so never less than the number that
\* have returned) and, with no call in progress, durations[o] is the sum of
\* the elapsed times; when they are not, call_counts[o] never exceeds that
\* number but can stay below the number of calls that have returned.
C15_CountsExactOnlyUnderSync ==
    \A o \in OperationIds :
        /\ info.call_counts[o] <= Stored(o)
        /\ Stored(o) > 0 => info.call_counts[o] >= 1
        /\ sync =>
              /\ info.call_counts[o] = Stored(o)
              /\ info.call_counts[o] >= Completed(o)
              /\ (\A t \in Threads : frames[t] = <<>>) =>
                     Normalized(info.durations[o]) = elapsed_sum[o]

\* two threads were in hpy_trace_on_enter(o) together, both calls have
\* returned and one increment is lost
C15_Witness ==
    /\ ~sync
    /\ Alive
    /\ \E o \in OperationIds :
          /\ n_enter[o] = 2
          /\ Completed(o) = 2
          /\ info.call_counts[o] = 1
          /\ frames[1] # <<>>
          /\ frames[2] # <<>>

\* the accounting is whole: every on_enter call started is counted and the
\* elapsed time of every on_exit call past its clock check is in the total
AccountingWhole ==
    \A o \in OperationIds :
        /\ info.call_counts[o] = n_enter[o]
        /\ Normalized(info.durations[o]) = elapsed_sum[o]

\* C16: with a trace function that makes wrapper calls of its own on the
\* thread it runs on, for the same or another id: a call that is inside
\* hpy_trace_on_enter or hpy_trace_on_exit can always run its next
\* statement (the trace function can always return, nothing is waited
\* for); whenever a trace function is running the accounting of all calls
\* so far is whole; and when all calls, outer and nested, have returned,
\* call_counts[o] is the number of on_enter(o) calls, every one of them has
\* had its on_exit, and durations[o] is the sum of their elapsed times.
C16_ReentrantCallsComplete ==
    /\ (Alive /\ frames[1] # <<>> /\ Top(1).fn \in {"on_enter", "on_exit"}) =>
           ENABLED (OnEnterStep(1) \/ OnExitStep(1))
    /\ (frames[1] # <<>> /\ InObserver(Top(1))) => AccountingWhole
    /\ (Alive /\ frames[1] = <<>>) =>
           /\ AccountingWhole
           /\ n_exit = n_enter

\* the on-enter trace function of a call is still running and the call it
\* made of the same operation has returned from its on_exit, whose trace
\* function was the last to run
C16_Witness ==
    /\ Alive
    /\ Len(frames[1]) = 1
    /\ Top(1).fn = "on_enter"
    /\ InObserver(Top(1))
    /\ \E i \in DOMAIN uctx_log :
          /\ uctx_log[i].fn = "HPy_CallTupleDict"
          /\ uctx_log[i].hs[1] = OnExitCallable
    /\ n_enter[Top(1).id] = 2
    /\ n_exit[Top(1).id] = 1
    /\ info.call_counts[Top(1).id] = 2
    /\ info.durations[Top(1).id] # ZeroTime

====
